---- MODULE Spec2Model ----
(***************************************************************************)
(* On-the-fly SSA construction (Braun et al.), as written in ssa_alg.py.   *)
(*                                                                         *)
(* The data model of lines 33-75 (IRNode, Value, Undef, Operation, Phi,    *)
(* Variable, Block, incompletePhis) is taken as declared: a Phi(block) is  *)
(* a new node owned by block with no operands and no users, a Block has a  *)
(* sequence preds, a map defs and a flag sealed, and incompletePhis holds  *)
(* one (initially empty) dict per block.  The statements of Algorithms 1-4 *)
(* (lines 81-145) and the bodies of Phi.appendOperand and Phi.replaceBy    *)
(* are modelled with the meaning Python gives them, exceptions included:   *)
(* a call that raises leaves the mutations it made so far in the heap.     *)
(***************************************************************************)
EXTENDS Integers, Sequences, FiniteSets, TLC

VARIABLES preds, sealed, defs, incompletePhis, phis, undefs, trivial, last, calls

vars == <<preds, sealed, defs, incompletePhis, phis, undefs, trivial, last, calls>>

(***************************************************************************)
(* Bounds of the model.                                                    *)
(***************************************************************************)
\* the builder makes at most this many calls
MaxCalls == 5
\* at most this many Phi nodes are ever allocated
MaxPhis == 2
\* at most this many Undef nodes are ever allocated
MaxUndefs == 1
\* no operand list grows beyond this length
MaxOperands == 4

(***************************************************************************)
(* Values.  Identity (Python `is`) is equality of the (kind, id) handle.   *)
(***************************************************************************)
None == [kind |-> "none", id |-> 0]
Op(k) == [kind |-> "op", id |-> k]
PhiV(i) == [kind |-> "phi", id |-> i]
UndefV(j) == [kind |-> "undef", id |-> j]
IsPhi(val) == val.kind = "phi"
IsUndef(val) == val.kind = "undef"

\* the Operation values the CFG builder writes
Ext == {Op(1), Op(2)}

Vars == {"x", "y"}
Blocks == {"A", "B", "C", "D"}

(***************************************************************************)
(* Control-flow graphs the builder hands over (Block.preds).               *)
(***************************************************************************)
\* A -> {B, C} -> D
Diamond == [b \in Blocks |->
    CASE b = "A" -> <<>> [] b = "B" -> <<"A">> [] b = "C" -> <<"A">> [] OTHER -> <<"B", "C">>]
\* A -> B, B <-> C, C -> D
Loop == [b \in Blocks |->
    CASE b = "A" -> <<>> [] b = "B" -> <<"A", "C">> [] b = "C" -> <<"B">> [] OTHER -> <<"C">>]
\* A -> B -> C, and D, which is its own sole predecessor
Chain == [b \in Blocks |->
    CASE b = "A" -> <<>> [] b = "B" -> <<"A">> [] b = "C" -> <<"B">> [] OTHER -> <<"D">>]

CFGs == {Diamond, Loop, Chain}

(***************************************************************************)
(* The heap threaded through the calls.                                    *)
(***************************************************************************)
\* trivial is history: the phis for which tryRemoveTrivialPhi finished its scan
\* with at most one distinct operand, and so went on to replace
Heap == [sealed |-> sealed, defs |-> defs, incompletePhis |-> incompletePhis,
         phis |-> phis, undefs |-> undefs, trivial |-> trivial]

\* the outcome of a call: the heap it leaves, how it ended, what it returned
Res(h, st, val) == [h |-> h, status |-> st, val |-> val]

\* Phi(block): a new operandless phi owned by block
NewPhi(h, b) ==
    [h EXCEPT !.phis = Append(@, [block |-> b, operands |-> <<>>, users |-> <<>>])]

\* faulty variant: the operand is put in front of the list
appendOperand_Front(h, phi, operand) ==
    [h EXCEPT !.phis[phi.id].operands = <<operand>> \o @]

appendOperand(h, phi, operand) ==
    [h EXCEPT !.phis[phi.id].operands = Append(@, operand)]

\* the body of replaceBy is `pass`
replaceBy(h, phi, replacement) == h

\* faulty variant: an entry that is already present is kept
writeVariable_IfAbsent(h, v, b, value) ==
    IF h.defs[b][v] # None THEN h ELSE [h EXCEPT !.defs[b][v] = value]

\* faulty variant: the block's whole def-map is replaced by the one value
writeVariable_Clobber(h, v, b, value) ==
    [h EXCEPT !.defs[b] = [w \in Vars |-> value]]

writeVariable(h, v, b, value) == [h EXCEPT !.defs[b][v] = value]

\* d[k] = val on a dict kept as the sequence of its items in insertion order
DictSet(d, k, val) ==
    IF \E i \in 1..Len(d) : d[i].var = k
    THEN [i \in 1..Len(d) |-> IF d[i].var = k THEN [var |-> k, phi |-> val] ELSE d[i]]
    ELSE Append(d, [var |-> k, phi |-> val])

\* list.remove(x): the list without the first occurrence of x
RemoveFirst(s, x) ==
    LET i == CHOOSE j \in 1..Len(s) : s[j] = x /\ \A k \in 1..(j-1) : s[k] # x
    IN  [k \in 1..(Len(s)-1) |-> IF k < i THEN s[k] ELSE s[k+1]]

\* the scan of tryRemoveTrivialPhi over phi.operands, from operand i on
RECURSIVE scanOperands(_, _, _, _)
scanOperands(ops, phi, i, same) ==
    IF i > Len(ops) THEN [trivial |-> TRUE, same |-> same]
    ELSE IF ops[i] = same \/ ops[i] = phi THEN scanOperands(ops, phi, i + 1, same)
    ELSE IF same # None THEN [trivial |-> FALSE, same |-> same]
    ELSE scanOperands(ops, phi, i + 1, ops[i])

\* lines 129-138, reached with the substitute same chosen
replaceTrivial(h, phi, same) ==
    IF \A k \in 1..Len(h.phis[phi.id].users) : h.phis[phi.id].users[k] # phi
    THEN \* phi.users.remove(phi): phi is not in the list
         Res(h, "ValueError", None)
    ELSE \* remove() returns None, so `for use in users` raises
         Res(replaceBy([h EXCEPT !.phis[phi.id].users = RemoveFirst(@, phi)], phi, same),
             "TypeError", None)

\* lines 126-128, reached with the result s of the scan
chooseSame(h, phi, s) ==
    IF ~s.trivial THEN Res(h, "ok", phi)
    ELSE IF s.same = None
    THEN replaceTrivial([h EXCEPT !.undefs = @ + 1, !.trivial = @ \cup {phi.id}],
                        phi, UndefV(h.undefs + 1))
    ELSE replaceTrivial([h EXCEPT !.trivial = @ \cup {phi.id}], phi, s.same)

tryRemoveTrivialPhi(h, phi) ==
    chooseSame(h, phi, scanOperands(h.phis[phi.id].operands, phi, 1, None))

RECURSIVE readVariable(_, _, _, _)
RECURSIVE readVariableRecursive(_, _, _, _)
RECURSIVE appendOperands(_, _, _, _)
RECURSIVE appendNext(_, _, _, _)

\* the loop of addPhiOperands, from predecessor i on
appendOperands(h, v, phi, i) ==
    IF i > Len(preds[h.phis[phi.id].block]) THEN Res(h, "ok", None)
    ELSE appendNext(readVariable(h, v, preds[h.phis[phi.id].block][i], {}), v, phi, i)

\* phi.appendOperand(r) for the outcome r of reading predecessor i
appendNext(r, v, phi, i) ==
    IF r.status # "ok" THEN r
    ELSE appendOperands(appendOperand(r.h, phi, r.val), v, phi, i + 1)

\* line 112, reached with the outcome r of the loop
removeAfter(r, phi) ==
    IF r.status # "ok" THEN r ELSE tryRemoveTrivialPhi(r.h, phi)

addPhiOperands(h, v, phi) == removeAfter(appendOperands(h, v, phi, 1), phi)

\* chain: the blocks whose single-predecessor frames lead, without a phi
\* frame in between, to this call; meeting one of them again means the
\* recursion never ends (Python stops it with RecursionError)
readVariable(h, v, b, chain) ==
    IF h.defs[b][v] # None
    THEN Res(h, "ok", h.defs[b][v])
    ELSE readVariableRecursive(h, v, b, chain)

\* faulty variant: the value is returned without being written to block.defs
memoize_NoWrite(r, v, b) == r

\* lines 105-106, reached with the outcome r of the branch taken
memoize(r, v, b) ==
    IF r.status # "ok" THEN r
    ELSE Res(writeVariable(r.h, v, b, r.val), "ok", r.val)

\* line 96 on the heap h1 that holds the new phi: it binds no val, so line 105
\* raises
registerIncomplete(h1, v, b) ==
    Res([h1 EXCEPT !.incompletePhis[b] = DictSet(@, v, PhiV(Len(h1.phis)))],
        "UnboundLocalError", None)

\* lines 103-104 on the heap h1 that holds the new phi
placePhi(h1, v, b) ==
    addPhiOperands(writeVariable(h1, v, b, PhiV(Len(h1.phis))), v, PhiV(Len(h1.phis)))

\* faulty variant: no shortcut for a single predecessor, every sealed block
\* gets a phi
readVariableRecursive_AlwaysPhi(h, v, b, chain) ==
    IF ~h.sealed[b] THEN registerIncomplete(NewPhi(h, b), v, b)
    ELSE memoize(placePhi(NewPhi(h, b), v, b), v, b)

readVariableRecursive(h, v, b, chain) ==
    IF ~h.sealed[b] THEN registerIncomplete(NewPhi(h, b), v, b)
    ELSE IF Len(preds[b]) = 1
    THEN IF b \in chain THEN Res(h, "RecursionError", None)
         ELSE memoize(readVariable(h, v, preds[b][1], chain \cup {b}), v, b)
    ELSE memoize(placePhi(NewPhi(h, b), v, b), v, b)

\* the loop of sealBlock over incompletePhis[block], from item i on
RECURSIVE sealLoop(_, _, _)
RECURSIVE sealNext(_, _, _)
sealLoop(h, b, i) ==
    IF i > Len(h.incompletePhis[b]) THEN Res(h, "ok", None)
    ELSE sealNext(addPhiOperands(h, h.incompletePhis[b][i].var, h.incompletePhis[b][i].phi),
                  b, i)

sealNext(r, b, i) ==
    IF r.status # "ok" THEN r ELSE sealLoop(r.h, b, i + 1)

\* faulty variant: the flag is left as it was
setSealed_Skip(r, b) ==
    IF r.status # "ok" THEN r ELSE Res(r.h, "ok", None)

\* line 145, reached with the outcome r of the loop
setSealed(r, b) ==
    IF r.status # "ok" THEN r
    ELSE Res([r.h EXCEPT !.sealed[b] = TRUE], "ok", None)

sealBlock(h, b) == setSealed(sealLoop(h, b, 1), b)

(***************************************************************************)
(* The state machine: the CFG builder's calls, one at a time.              *)
(***************************************************************************)
\* the record of the builder's last call: what was called, how it ended and
\* what it returned, with what the heap looked like when it was made (was b
\* sealed, did b.defs hold v) and how many Phi nodes the call allocated
Call(op, v, b, r) ==
    [op |-> op, v |-> v, b |-> b, status |-> r.status, ret |-> r.val,
     wasSealed |-> sealed[b], hadDef |-> (op # "seal" /\ defs[b][v] # None),
     new |-> Len(r.h.phis) - Len(phis)]

Install(h) ==
    /\ calls < MaxCalls
    /\ calls' = calls + 1
    /\ Len(h.phis) <= MaxPhis
    /\ h.undefs <= MaxUndefs
    /\ \A i \in 1..Len(h.phis) : Len(h.phis[i].operands) <= MaxOperands
    /\ sealed' = h.sealed
    /\ defs' = h.defs
    /\ incompletePhis' = h.incompletePhis
    /\ phis' = h.phis
    /\ undefs' = h.undefs
    /\ trivial' = h.trivial
    /\ UNCHANGED preds

Init ==
    /\ preds \in CFGs
    /\ sealed = [b \in Blocks |-> FALSE]
    /\ defs = [b \in Blocks |-> [v \in Vars |-> None]]
    /\ incompletePhis = [b \in Blocks |-> <<>>]
    /\ phis = <<>>
    /\ undefs = 0
    /\ trivial = {}
    /\ calls = 0
    /\ last = [op |-> "none", v |-> "x", b |-> "A", status |-> "ok", ret |-> None,
               wasSealed |-> FALSE, hadDef |-> FALSE, new |-> 0]

\* one call of the builder, with outcome r
Do(op, v, b, r) ==
    /\ Install(r.h)
    /\ last' = Call(op, v, b, r)

WriteVariable(v, b, val) == Do("write", v, b, Res(writeVariable(Heap, v, b, val), "ok", None))

ReadVariable(v, b) == Do("read", v, b, readVariable(Heap, v, b, {}))

SealBlock(b) == Do("seal", "x", b, sealBlock(Heap, b))

\* the calls the builder makes: x is written and read everywhere, with either
\* value; the second variable y is written in the entry block and read in B
Writes == {<<"x", b, val>> : b \in Blocks, val \in Ext} \cup {<<"y", "A", Op(1)>>}
Reads == {<<"x", b>> : b \in Blocks} \cup {<<"y", "B">>}

Next ==
    \/ \E w \in Writes : WriteVariable(w[1], w[2], w[3])
    \/ \E r \in Reads : ReadVariable(r[1], r[2])
    \/ \E b \in Blocks : SealBlock(b)

Spec == Init /\ [][Next]_vars

(***************************************************************************)
(* Properties.                                                             *)
(***************************************************************************)
\* the phi a value denotes
PhiOf(val) == phis[val.id]

\* val is referenced from a def-map, from the registry or as an operand
Referenced(val) ==
    \/ \E b \in Blocks, v \in Vars : defs[b][v] = val
    \/ \E b \in Blocks : \E i \in 1..Len(incompletePhis[b]) : incompletePhis[b][i].phi = val
    \/ \E i \in 1..Len(phis) : \E k \in 1..Len(phis[i].operands) : phis[i].operands[k] = val

\* the last call was a readVariable that returned
ReadReturned == last.op = "read" /\ last.status = "ok"

C1_Memoized ==
    ReadReturned =>
        /\ defs[last.b][last.v] = last.ret
        /\ readVariable(Heap, last.v, last.b, {}) = Res(Heap, "ok", last.ret)

C1_KeptUntilWritten ==
    \A b \in Blocks, v \in Vars :
        (defs[b][v] # None /\ ~(last'.op = "write" /\ last'.b = b /\ last'.v = v))
            => defs'[b][v] = defs[b][v]

C2_EveryCallEnds == last.status # "RecursionError"

\* C3: a phi that trivial-phi elimination found trivial is afterwards held
\* neither as an operand of any node nor by any def-map or registry entry
C3_NoDanglingPhi == \A i \in trivial : ~Referenced(PhiV(i))

\* a phi owned by one of the loop blocks B, C
LoopPhi(val) == IsPhi(val) /\ PhiOf(val).block \in {"B", "C"}

\* C4: in the loop A -> B <-> C with x defined in A only, once B and C are
\* sealed every def of x in the loop is A's value and no phi of B or C is
\* referenced any more
C4_LoopCollapses ==
    (/\ preds = Loop /\ sealed["B"] /\ sealed["C"]
     /\ defs["A"]["x"] \in Ext /\ defs["B"]["x"] \notin Ext /\ defs["C"]["x"] \notin Ext)
        => /\ \A b \in {"B", "C"} : defs[b]["x"] \in {None, defs["A"]["x"]}
           /\ \A i \in 1..Len(phis) : LoopPhi(PhiV(i)) => ~Referenced(PhiV(i))

\* the values now recorded for v in the predecessors of b, in order
PredValues(v, b) == [k \in 1..Len(preds[b]) |-> defs[preds[b][k]][v]]

C5_Diamond ==
    (/\ preds = Diamond /\ last.op = "read" /\ last.b = "D" /\ last.wasSealed /\ ~last.hadDef
     /\ defs["B"][last.v] \in Ext /\ defs["C"][last.v] \in Ext
     /\ defs["B"][last.v] # defs["C"][last.v])
        => /\ last.status = "ok" /\ IsPhi(last.ret) /\ last.new = 1
           /\ PhiOf(last.ret).block = "D"
           /\ PhiOf(last.ret).operands = <<defs["B"][last.v], defs["C"][last.v]>>

C5_General ==
    ReadReturned =>
        \A i \in (Len(phis) - last.new + 1)..Len(phis) :
            /\ phis[i].operands = PredValues(last.v, phis[i].block)
            /\ defs[phis[i].block][last.v] = PhiV(i)

C6_SealCompletes ==
    [][(last'.op = "seal" /\ ~sealed[last'.b] /\ last'.status = "ok") =>
          /\ sealed'[last'.b]
          /\ incompletePhis'[last'.b] = <<>>
          /\ \A i \in 1..Len(incompletePhis[last'.b]) :
                phis'[incompletePhis[last'.b][i].phi.id].operands
                    = [k \in 1..Len(preds[last'.b]) |->
                          defs'[preds[last'.b][k]][incompletePhis[last'.b][i].var]]]_vars

\* C7: the registry holds entries for unsealed blocks only
C7_RegistryOnlyUnsealed == \A b \in Blocks : sealed[b] => incompletePhis[b] = <<>>

\* C8: sealBlock on a sealed block fails and changes nothing
C8_DoubleSealRejected ==
    [][(last'.op = "seal" /\ sealed[last'.b]) =>
          /\ last'.status # "ok"
          /\ UNCHANGED <<sealed, defs, incompletePhis, phis, undefs>>]_vars

C10_UnreachableUndef ==
    (last.op = "read" /\ last.wasSealed /\ ~last.hadDef /\ Len(preds[last.b]) = 0)
        => /\ last.status = "ok"
           /\ IsUndef(last.ret) /\ last.ret.id = undefs
           /\ defs[last.b][last.v] = last.ret

\* the phis the step allocates
NewPhis == (Len(phis) + 1)..Len(phis')

\* in the chain A -> B -> C, every block from B down to b is sealed and holds
\* for v either nothing or the entry block's value
ChainClean(d, s, v, b) ==
    /\ preds = Chain /\ d["A"][v] \in Ext
    /\ \A c \in (IF b = "C" THEN {"B", "C"} ELSE {"B"}) :
          s[c] /\ d[c][v] \in {None, d["A"][v]}

\* C11: a read in a sealed block with exactly one predecessor creates no phi
\* for a sealed single-predecessor block; and in the chain A -> B -> C of
\* sealed blocks with v defined in A only, a read of v in B or C returns A's
\* value itself and leaves every downstream def equal to it
C11_ChainWithoutPhi ==
    [][last'.op = "read" =>
          /\ \A i \in NewPhis :
                ~(sealed[phis'[i].block] /\ Len(preds[phis'[i].block]) = 1)
          /\ \A b \in {"B", "C"} :
                (last'.b = b /\ ChainClean(defs, sealed, last'.v, b)) =>
                    /\ last'.status = "ok" /\ last'.ret = defs["A"][last'.v]
                    /\ last'.new = 0
                    /\ defs'[b][last'.v] = defs["A"][last'.v]
                    /\ ChainClean(defs', sealed', last'.v, b)]_vars

\* C11 witness: x, defined in A only, was read in C through the sealed chain
C11_Witness ==
    /\ preds = Chain /\ ReadReturned /\ last.b = "C" /\ last.v = "x" /\ ~last.hadDef
    /\ sealed["B"] /\ sealed["C"] /\ last.new = 0
    /\ defs["A"]["x"] \in Ext /\ last.ret = defs["A"]["x"]
    /\ defs["B"]["x"] = last.ret /\ defs["C"]["x"] = last.ret

\* C12: writeVariable(v, b, val) sets b.defs[v] to val, whether or not the
\* entry existed, and changes nothing else: no Value is created, every other
\* def entry, the sealed flags, the registry and every phi's operand and user
\* lists stay as they were; the next readVariable(v, b) returns val unchanged
C12_WriteFrame ==
    [][\A w \in Writes :
          (/\ last'.op = "write" /\ last'.v = w[1] /\ last'.b = w[2]
           /\ WriteVariable(w[1], w[2], w[3])) =>
              /\ defs' = [defs EXCEPT ![w[2]][w[1]] = w[3]]
              /\ UNCHANGED <<preds, sealed, incompletePhis, phis, undefs, trivial>>
              /\ last'.status = "ok" /\ last'.new = 0
              /\ readVariable(Heap, w[1], w[2], {})' = Res(Heap, "ok", w[3])']_vars

\* C12 witness: a write replaced an entry that was present, in a heap that
\* holds a phi with operands and a pending phi
C12_Witness ==
    /\ last.op = "write" /\ last.hadDef /\ defs[last.b][last.v] \in Ext
    /\ \E i \in 1..Len(phis) : phis[i].operands # <<>>
    /\ \E b \in Blocks : incompletePhis[b] # <<>>

\* val occurs in the sequence
Occurs(val, seq) == \E k \in 1..Len(seq) : seq[k] = val

\* C13: the user and operand lists mirror each other: a phi X is in the users
\* of a phi P exactly when P occupies an operand slot of X
C13_UsersMirrorOperands ==
    \A i \in 1..Len(phis), j \in 1..Len(phis) :
        Occurs(PhiV(j), phis[i].users) <=> Occurs(PhiV(i), phis[j].operands)

\* C14: a read of v in an unsealed block b without a def of v returns one new
\* phi owned by b, without operands, registered under (b, v) and written to
\* b.defs[v]; no other block is touched
C14_UnsealedReadPlaceholder ==
    (last.op = "read" /\ ~last.wasSealed /\ ~last.hadDef) =>
        /\ last.status = "ok" /\ last.new = 1
        /\ last.ret = PhiV(Len(phis))
        /\ PhiOf(last.ret).block = last.b /\ PhiOf(last.ret).operands = <<>>
        /\ Occurs([var |-> last.v, phi |-> last.ret], incompletePhis[last.b])
        /\ defs[last.b][last.v] = last.ret

\* the distinct operands of phi i other than the phi itself
Distinct(i) == {phis[i].operands[k] : k \in 1..Len(phis[i].operands)} \ {PhiV(i)}

\* no phi that was a user of phi i holds it in an operand slot of heap h
Rewritten(h, i) ==
    \A k \in 1..Len(phis[i].users) :
        IsPhi(phis[i].users[k]) /\ phis[i].users[k] # PhiV(i)
            => ~Occurs(PhiV(i), h.phis[phis[i].users[k].id].operands)

\* C15: tryRemoveTrivialPhi(phi) goes by the set D of phi's distinct operands
\* other than phi: with two or more it returns phi and changes nothing; with
\* one it returns that operand; with none it returns a fresh Undef; in the
\* last two cases phi has no users afterwards and no former user holds phi
C15_TrivialClassification ==
    \A i \in 1..Len(phis) :
        LET r == tryRemoveTrivialPhi(Heap, PhiV(i))
            n == Cardinality(Distinct(i))
        IN  /\ r.status = "ok"
            /\ n >= 2 => r.val = PhiV(i) /\ r.h = Heap
            /\ n = 1 => r.val \in Distinct(i)
            /\ n = 0 => IsUndef(r.val) /\ r.h.undefs = undefs + 1
            /\ n <= 1 => r.h.phis[i].users = <<>> /\ Rewritten(r.h, i)

\* the part of C15 about a phi that merges two or more distinct values
C15_NonTrivialKept ==
    \A i \in 1..Len(phis) :
        Cardinality(Distinct(i)) >= 2
            => tryRemoveTrivialPhi(Heap, PhiV(i)) = Res(Heap, "ok", PhiV(i))

\* phi i got an operand for every predecessor of its block
Completed(i) ==
    /\ phis[i].operands # <<>>
    /\ Len(phis[i].operands) >= Len(preds[phis[i].block])

\* C16: pruned form: every phi that was completed and is still referenced, so
\* not replaced, merges at least two distinct values other than itself
C16_PrunedForm ==
    \A i \in 1..Len(phis) :
        (Completed(i) /\ Referenced(PhiV(i))) => Cardinality(Distinct(i)) >= 2

HasPhiFor(b, v) ==
    \/ \E k \in 1..Len(incompletePhis[b]) : incompletePhis[b][k].var = v
    \/ IsPhi(defs[b][v]) /\ PhiOf(defs[b][v]).block = b

\* C18: at most one phi is ever created for a (block, variable): no read of v
\* creates a phi for a block that already got one for v, and a def-map entry,
\* once present, is never removed
C18_OnePhiPerBlockVar ==
    [][/\ \A b \in Blocks, v \in Vars : defs[b][v] # None => defs'[b][v] # None
       /\ last'.op = "read" =>
             \A i \in NewPhis : ~HasPhiFor(phis'[i].block, last'.v)]_vars

\* the part of C18 about def-map entries
C18_DefsNeverRemoved ==
    [][\A b \in Blocks, v \in Vars : defs[b][v] # None => defs'[b][v] # None]_vars

\* S and the predecessors of its blocks
WithPreds(S) == S \cup UNION {{preds[c][k] : k \in 1..Len(preds[c])} : c \in S}

\* b and the blocks from which b is reachable along predecessor edges
Ancestors(b) == WithPreds(WithPreds(WithPreds({b})))

\* C19: readVariable(v, b) changes def-maps only for v and only in b and the
\* blocks from which b is reachable along predecessor edges; it changes no
\* sealed flag and no predecessor list, and it changes the registry only of
\* unsealed blocks among those blocks, and there only the entry of v
C19_ReadFrame ==
    [][last'.op = "read" =>
          /\ \A c \in Blocks, w \in Vars :
                defs'[c][w] # defs[c][w] => w = last'.v /\ c \in Ancestors(last'.b)
          /\ UNCHANGED <<sealed, preds>>
          /\ \A c \in Blocks :
                incompletePhis'[c] # incompletePhis[c] =>
                    /\ c \in Ancestors(last'.b) /\ ~sealed[c]
                    /\ \A k \in 1..Len(incompletePhis[c]) :
                          incompletePhis[c][k].var # last'.v
                              => incompletePhis'[c][k] = incompletePhis[c][k]]_vars

\* C19 witness: a read of x in C went up the chain to A and wrote x into B
\* and C while y is defined in A
C19_Witness ==
    /\ preds = Chain /\ ReadReturned /\ last.b = "C" /\ last.v = "x" /\ ~last.hadDef
    /\ defs["B"]["x"] = last.ret /\ defs["C"]["x"] = last.ret
    /\ defs["A"]["y"] \in Ext /\ defs["B"]["y"] = None /\ defs["C"]["y"] = None

====
